---- MODULE Spec2Model ----
(***************************************************************************)
(* Timetable optimisation engine of themis: the genetic algorithm of       *)
(* lib/genetic_algo.py (ScheduleGA) and the orchestration of               *)
(* lib/gemini_ai.py (GeminiScheduler, HybridOptimizer).                    *)
(*                                                                         *)
(* Conventions.  Python lists are sequences, so a Python index i is the    *)
(* position i + 1 here; generation numbers stay 0-based as in the code.    *)
(* Days, time slots, rooms and entity ids are the numbers 1, 2, ...        *)
(* standing for pairwise distinct names.  A gene is the dict built by      *)
(* create_individual without entity_name, which no code reads.  A DEAP     *)
(* Individual is a record of its genes and of fitness.values, the empty    *)
(* tuple while the fitness is invalid.  random.* calls are choices made by *)
(* the action that makes the call.  Both probabilities (crossover_prob,    *)
(* mutation_prob) are strictly between 0 and 1, as the defaults are, so    *)
(* random.random() < p can come out either way.                            *)
(***************************************************************************)
EXTENDS Integers, Sequences, FiniteSets, TLC

\* ------------------------------------------------------------------ bounds
MaxEntities == 2
MaxPop == 2
MaxGen == 2
MaxDays == 1
MaxTimes == 1
MaxRooms == 2
MaxRows == 1
MaxFallbackEntities == 5
MaxFallbackDays == 2
MaxFallbackTimes == 2
MaxFallbackRooms == 2
ScenarioPopulationSize == 10
ScenarioGenerations == 5
MaxSwapPopulation == 3
MaxFitnessEntities == 3
MaxFitnessDays == 2
MaxFitnessTimes == 2
MaxFitnessRooms == 1
MaxSoftDays == 2
MaxSoftTimes == 2
MaxPenaltyEntities == 5
MaxPenaltyRooms == 2

\* ------------------------------------------------------- program constants
BaselineScore == 1000
DefaultWeightNoOverlap == 100
DefaultWeightRoomCapacity == 80
DefaultWeightAvailability == 90
DefaultWeightPreferredTime == 20
DefaultWeightBalancedDistribution == 30
DefaultWeightConsecutiveSlots == 15
DefaultWeightGapPenalty == 10
DefaultTournamentSize == 3
DefaultRoomCapacity == 30
DefaultDurationGA == 2
DefaultDurationFallback == 1
HallOfFameSize == 1

VARIABLES
    entities,         \* HybridOptimizer.entities: the input entities, in order
    constraints,      \* HybridOptimizer.constraints
    config,           \* HybridOptimizer.config
    pc,               \* where optimize() stands
    method,           \* the method optimize() was called with
    ga,               \* the ScheduleGA instance and evolve()'s locals
    has_seed,         \* optimize_hybrid's has_seed
    gemini_solution,  \* optimize_hybrid's gemini_solution
    advisor_calls,    \* number of model.generate_content calls made
    response,         \* what model.generate_content answered
    sink,             \* the calls made to progress_callback, in order
    result,           \* what optimize() returned
    error,            \* the exception optimize() raised
    ga2,              \* a second ScheduleGA run, for comparing two methods
    stop              \* whether a progress_callback call returned a stop signal

vars == <<entities, constraints, config, pc, method, ga, has_seed,
          gemini_solution, advisor_calls, response, sink, result, error, ga2,
          stop>>

None == "None"

\* ------------------------------------------------------------------ helpers
Max(a, b) == IF a >= b THEN a ELSE b
Min(a, b) == IF a <= b THEN a ELSE b
Abs(x) == IF x < 0 THEN 0 - x ELSE x

RECURSIVE SumSeq(_)
SumSeq(s) == IF s = <<>> THEN 0 ELSE Head(s) + SumSeq(Tail(s))

RECURSIVE GCD(_, _)
GCD(a, b) == IF b = 0 THEN a ELSE GCD(b, a % b)

\* A Python float: the fraction num / den in lowest terms with den > 0, or
\* nan, written with den = 0.  Rounding is not modelled.
NaN == [num |-> 0, den |-> 0]

IsNaN(x) == x.den = 0

\* The float n / d of integers n and d > 0.
Frac(n, d) == LET g == GCD(Abs(n), d) IN [num |-> n \div g, den |-> d \div g]

\* float(n)
Float(n) == [num |-> n, den |-> 1]

\* x + y, x * y, x / y (y is never 0 where the code divides) and abs(x);
\* nan in gives nan out.
FAdd(x, y) ==
    IF IsNaN(x) \/ IsNaN(y) THEN NaN
    ELSE Frac(x.num * y.den + y.num * x.den, x.den * y.den)

FMul(x, y) ==
    IF IsNaN(x) \/ IsNaN(y) THEN NaN
    ELSE Frac(x.num * y.num, x.den * y.den)

FDiv(x, y) ==
    IF IsNaN(x) \/ IsNaN(y) THEN NaN
    ELSE IF y.num > 0 THEN Frac(x.num * y.den, x.den * y.num)
    ELSE Frac(0 - x.num * y.den, x.den * (0 - y.num))

FAbs(x) == [x EXCEPT !.num = Abs(x.num)]

\* x < y and x <= y: False as soon as one side is nan.
FLt(x, y) == ~IsNaN(x) /\ ~IsNaN(y) /\ x.num * y.den < y.num * x.den

FLe(x, y) == ~IsNaN(x) /\ ~IsNaN(y) /\ x.num * y.den <= y.num * x.den

\* The builtin max(x, y): x, unless y > x.
PyMax(x, y) == IF FLt(x, y) THEN y ELSE x

\* sum of a list of floats
RECURSIVE FSum(_)
FSum(s) == IF s = <<>> THEN Float(0) ELSE FAdd(Head(s), FSum(Tail(s)))

\* np.max and np.min of a non-empty list of floats: nan if one of them is.
RECURSIVE MaxSeq(_)
MaxSeq(s) ==
    IF Len(s) = 1 THEN s[1]
    ELSE LET rest == MaxSeq(Tail(s)) IN
         IF IsNaN(Head(s)) \/ IsNaN(rest) THEN NaN
         ELSE IF FLt(Head(s), rest) THEN rest ELSE Head(s)

RECURSIVE MinSeq(_)
MinSeq(s) ==
    IF Len(s) = 1 THEN s[1]
    ELSE LET rest == MinSeq(Tail(s)) IN
         IF IsNaN(Head(s)) \/ IsNaN(rest) THEN NaN
         ELSE IF FLt(rest, Head(s)) THEN rest ELSE Head(s)

\* d.get(key, default) on a dict modelled as a record or function
Get(d, key, default) == IF key \in DOMAIN d THEN d[key] ELSE default

\* ------------------------------------------------------------------- inputs
\* The entity with id i.  Entity 1 carries a duration and needs 40 seats;
\* the others carry neither key, so the .get defaults apply to them.
EntityAt(i) ==
    IF i = 1 THEN [id |-> 1, duration |-> 1, capacity_needed |-> 40]
    ELSE [id |-> i]

EntityLists == {[i \in 1..n |-> EntityAt(i)] : n \in 0..MaxEntities}

\* A resource list of n distinct names.
Names(n) == [i \in 1..n |-> i]

\* room_capacities as the page builds it: room 2 is listed with 50 seats,
\* every other room is unlisted and gets get_room_capacity's default.
RoomCapacities(rooms) == [r \in {rooms[k] : k \in DOMAIN rooms} \cap {2} |-> 50]

ConstraintLists ==
    { <<>>,
      <<[type |-> "no_overlap"]>>,
      <<[type |-> "room_capacity"]>>,
      <<[type |-> "no_overlap"], [type |-> "room_capacity"]>> }

MutationStrategies == {"swap", "shift", "random"}

\* elitism_rate in percent
ElitismRates == {10, 100}

Configs ==
    { [ population_size |-> n, generations |-> g,
        tournament_size |-> DefaultTournamentSize,
        elitism_rate |-> er, mutation_strategy |-> ms,
        fitness_method |-> "weighted",
        weight_no_overlap |-> DefaultWeightNoOverlap,
        weight_room_capacity |-> DefaultWeightRoomCapacity,
        weight_availability |-> DefaultWeightAvailability,
        weight_preferred_time |-> DefaultWeightPreferredTime,
        weight_balanced_distribution |-> DefaultWeightBalancedDistribution,
        weight_consecutive_slots |-> DefaultWeightConsecutiveSlots,
        weight_gap_penalty |-> DefaultWeightGapPenalty,
        days |-> Names(nd), time_slots |-> Names(nt), rooms |-> Names(nr),
        room_capacities |-> RoomCapacities(Names(nr)) ] :
        n \in 0..MaxPop, g \in 0..MaxGen, er \in ElitismRates,
        ms \in MutationStrategies,
        nd \in 0..MaxDays, nt \in 0..MaxTimes, nr \in 0..MaxRooms }

\* self.days, self.time_slots, self.rooms of ScheduleGA.__init__
days == config.days
time_slots == config.time_slots
rooms == config.rooms

Range(s) == {s[i] : i \in DOMAIN s}

\* ------------------------------------------------------- fitness evaluation
SameSlot(slot1, slot2) ==
    /\ slot1.day = slot2.day
    /\ slot1.time = slot2.time
    /\ slot1.room = slot2.room

\* A count that compares each gene with the next one only.
check_overlaps_adjacent(individual) ==
    Cardinality({i \in DOMAIN individual.genes :
                   /\ i + 1 \in DOMAIN individual.genes
                   /\ SameSlot(individual.genes[i], individual.genes[i + 1])})

\* Number of pairs i < j of genes on one (day, time, room).
check_overlaps(individual) ==
    Cardinality({p \in (DOMAIN individual.genes) \X (DOMAIN individual.genes) :
                   /\ p[1] < p[2]
                   /\ SameSlot(individual.genes[p[1]], individual.genes[p[2]])})

get_room_capacity(room) ==
    Get(config.room_capacities, room, DefaultRoomCapacity)

\* next((e for e in self.entities if e["id"] == entity_id), None): the
\* first entity with that id, as a list of at most one element (None is <<>>).
FindEntity(entity_id) ==
    IF \E k \in DOMAIN entities : entities[k].id = entity_id
    THEN <<entities[CHOOSE k \in DOMAIN entities :
                      /\ entities[k].id = entity_id
                      /\ \A m \in DOMAIN entities :
                           entities[m].id = entity_id => k <= m]>>
    ELSE <<>>

check_room_capacity(individual) ==
    Cardinality({i \in DOMAIN individual.genes :
        LET entity == FindEntity(individual.genes[i].entity_id) IN
        /\ entity # <<>>
        /\ Get(entity[1], "capacity_needed", 0)
             > get_room_capacity(individual.genes[i].room)})

\* slot keys "day_time" are the pairs <<day, time>>
check_availability(individual, constraint) ==
    Cardinality({i \in DOMAIN individual.genes :
        /\ "entity_id" \in DOMAIN constraint
        /\ individual.genes[i].entity_id = constraint.entity_id
        /\ <<individual.genes[i].day, individual.genes[i].time>>
             \in Get(constraint, "unavailable_slots", {})})

check_preferred_times(individual, constraint) ==
    Cardinality({i \in DOMAIN individual.genes :
        /\ "entity_id" \in DOMAIN constraint
        /\ individual.genes[i].entity_id = constraint.entity_id
        /\ <<individual.genes[i].day, individual.genes[i].time>>
             \in Get(constraint, "preferred_slots", {})})

\* What one constraint adds to the score in the first loop (hard constraints).
HardTerm(individual, constraint) ==
    CASE constraint.type = "no_overlap" ->
           0 - check_overlaps(individual) * config.weight_no_overlap
      [] constraint.type = "room_capacity" ->
           0 - check_room_capacity(individual) * config.weight_room_capacity
      [] constraint.type = "availability" ->
           0 - check_availability(individual, constraint) * config.weight_availability
      [] OTHER -> 0

\* Number of genes of the individual on each day of self.days, in the order
\* of the list (the days are pairwise distinct).
DayCounts(individual) ==
    [k \in DOMAIN days |->
       Cardinality({i \in DOMAIN individual.genes : individual.genes[i].day = days[k]})]

\* np.var of a list of integers: nan on the empty list.
Variance(counts) ==
    IF counts = <<>> THEN NaN
    ELSE LET n == Len(counts)
             total == SumSeq(counts)
             squares == SumSeq([k \in DOMAIN counts |-> counts[k] * counts[k]])
         IN  Frac(n * squares - total * total, n * n)

\* 100 / (1 + variance of the day counts)
check_balance(individual) ==
    FDiv(Float(100), FAdd(Float(1), Variance(DayCounts(individual))))

\* list.index(x): the 0-based position of the first x
IndexOf(list, x) ==
    (CHOOSE k \in DOMAIN list :
        list[k] = x /\ \A m \in DOMAIN list : list[m] = x => k <= m) - 1

\* sorted(...) of a list of integers
RECURSIVE Sorted(_)
Sorted(s) ==
    IF s = <<>> THEN <<>>
    ELSE LET x == Head(s)
             rest == Sorted(Tail(s))
         IN  SelectSeq(rest, LAMBDA y : y < x) \o <<x>>
               \o SelectSeq(rest, LAMBDA y : y >= x)

\* The time_slots positions of the given genes that lie on the day, sorted.
DaySlots(genes, day) ==
    LET on_day == SelectSeq(genes, LAMBDA slot : slot.day = day) IN
    Sorted([i \in DOMAIN on_day |-> IndexOf(time_slots, on_day[i].time)])

check_consecutive_preference(individual, constraint) ==
    LET entity_slots ==
            SelectSeq(individual.genes,
                      LAMBDA slot : /\ "entity_id" \in DOMAIN constraint
                                    /\ slot.entity_id = constraint.entity_id)
    IN  SumSeq([k \in DOMAIN days |->
                  LET day_slots == DaySlots(entity_slots, days[k]) IN
                  Cardinality({i \in 1..(Len(day_slots) - 1) :
                                 day_slots[i + 1] = day_slots[i] + 1})])

check_gaps(individual) ==
    SumSeq([k \in DOMAIN days |->
              LET day_slots == DaySlots(individual.genes, days[k]) IN
              SumSeq([i \in 1..(Len(day_slots) - 1) |->
                        Max(day_slots[i + 1] - day_slots[i] - 1, 0)])])

\* What one constraint adds to the score in the second loop (preferences).
SoftTerm(individual, constraint) ==
    CASE constraint.type = "preferred_time" ->
           Float(check_preferred_times(individual, constraint)
                   * config.weight_preferred_time)
      [] constraint.type = "balanced_distribution" ->
           FMul(check_balance(individual), Float(config.weight_balanced_distribution))
      [] constraint.type = "consecutive_slots" ->
           Float(check_consecutive_preference(individual, constraint)
                   * config.weight_consecutive_slots)
      [] constraint.type = "minimize_gaps" ->
           Float(0 - check_gaps(individual) * config.weight_gap_penalty)
      [] OTHER -> Float(0)

RawScore(individual) ==
    FAdd(Float(BaselineScore
                 + SumSeq([c \in DOMAIN constraints |->
                             HardTerm(individual, constraints[c])])),
         FSum([c \in DOMAIN constraints |-> SoftTerm(individual, constraints[c])]))

\* 1000.0 / (1 + abs(score))
PenaltyTransform(score) == FDiv(Float(BaselineScore), FAdd(Float(1), FAbs(score)))

\* The tuple evaluate_fitness returns.
evaluate_fitness(individual) ==
    LET score == RawScore(individual)
        final == IF config.fitness_method = "penalty_based" /\ FLt(score, Float(0))
                 THEN PenaltyTransform(score)
                 ELSE score
    IN  <<PyMax(final, Float(0))>>

\* ------------------------------------------------------ genetic operators
NoFitness == <<>>

\* The three random.choice draws create_individual makes for one entity.
SlotDraws == [day : Range(days), time : Range(time_slots), room : Range(rooms)]

IndividualDraws == [DOMAIN entities -> SlotDraws]

\* random.choice raises IndexError on an empty list; the first entity's
\* gene already draws from all three lists.
CreateIndividualRaises ==
    /\ entities # <<>>
    /\ (days = <<>> \/ time_slots = <<>> \/ rooms = <<>>)

create_individual(draw) ==
    [ genes |-> [i \in DOMAIN entities |->
                   [ entity_id |-> entities[i].id,
                     day |-> draw[i].day,
                     time |-> draw[i].time,
                     room |-> draw[i].room,
                     duration |-> Get(entities[i], "duration", DefaultDurationGA) ]],
      fitness |-> NoFitness ]

\* tools.selTournament draws tournsize aspirants with replacement
\* (tools.selRandom) and keeps max(aspirants, key=fitness): the first
\* aspirant of greatest fitness.  toolbox.clone is a deep copy, which a value
\* already is.
AspirantDraws(individuals, tournsize) == [1..tournsize -> DOMAIN individuals]

TournamentWinner(individuals, aspirants) ==
    LET fit(a) == individuals[aspirants[a]].fitness[1]
        best == CHOOSE a \in DOMAIN aspirants :
                    /\ \A b \in DOMAIN aspirants : FLe(fit(b), fit(a))
                    /\ \A b \in DOMAIN aspirants : b < a => FLt(fit(b), fit(a))
    IN  individuals[aspirants[best]]

\* tools.cxTwoPoint on the draws r1 = randint(1, size), r2 = randint(1, size - 1):
\* the genes of the Python slice [cxpoint1:cxpoint2] change sides.
cxTwoPoint(ind1, ind2, r1, r2) ==
    LET cxpoint1 == IF r2 >= r1 THEN r1 ELSE r2
        cxpoint2 == IF r2 >= r1 THEN r2 + 1 ELSE r1
        inside(i) == cxpoint1 < i /\ i <= cxpoint2
    IN  << [ind1 EXCEPT !.genes = [i \in DOMAIN ind1.genes |->
                 IF inside(i) THEN ind2.genes[i] ELSE ind1.genes[i]]],
           [ind2 EXCEPT !.genes = [i \in DOMAIN ind2.genes |->
                 IF inside(i) THEN ind1.genes[i] ELSE ind2.genes[i]]] >>

\* The draws of one crossover step: random.random() < crossover_prob, then
\* cxTwoPoint's two randint calls.
MateDraws(ind1, ind2) ==
    LET size == Min(Len(ind1.genes), Len(ind2.genes)) IN
    {[mate |-> FALSE]}
      \cup {[mate |-> TRUE, r1 |-> a, r2 |-> b] : a \in 1..size, b \in 1..(size - 1)}

\* randint(1, size - 1) raises ValueError (empty range) when size <= 1.
cxTwoPointRaises(ind1, ind2) == Min(Len(ind1.genes), Len(ind2.genes)) <= 1

\* random.randint(0, len(individual) - 1) raises ValueError (empty range) on
\* an empty genome, under the shift and random strategies.
MutateRaises(individual, d) ==
    /\ d.mutate
    /\ config.mutation_strategy \in {"shift", "random"}
    /\ Len(individual.genes) = 0

\* The draws of one mutate_schedule call.
MutationDraws(individual) ==
    LET n == Len(individual.genes) IN
    {[mutate |-> FALSE]} \cup
    (IF n = 0 THEN {[mutate |-> TRUE]} ELSE {}) \cup
    CASE config.mutation_strategy = "swap" ->
           IF n >= 2
           THEN {x \in {[mutate |-> TRUE, i |-> a, j |-> b] :
                            a \in 1..n, b \in 1..n} : x.i # x.j}
           ELSE {[mutate |-> TRUE]}
      [] config.mutation_strategy = "shift" ->
           {[mutate |-> TRUE, idx |-> a, mutation_type |-> "day", value |-> v] :
               a \in 1..n, v \in Range(days)}
             \cup {[mutate |-> TRUE, idx |-> a, mutation_type |-> "time", value |-> v] :
               a \in 1..n, v \in Range(time_slots)}
             \cup {[mutate |-> TRUE, idx |-> a, mutation_type |-> "room", value |-> v] :
               a \in 1..n, v \in Range(rooms)}
      [] config.mutation_strategy = "random" ->
           {[mutate |-> TRUE, idx |-> a, day |-> d, time |-> t, room |-> r] :
               a \in 1..n, d \in Range(days), t \in Range(time_slots),
               r \in Range(rooms)}
      [] OTHER -> {[mutate |-> TRUE]}

\* A mutation that writes the position of the drawn value in its list, as
\* the counters of the fallback scheduler are, instead of the value.
mutate_schedule_by_index(individual, d) ==
    IF ~d.mutate THEN individual
    ELSE CASE config.mutation_strategy = "swap" ->
                IF Len(individual.genes) >= 2
                THEN [individual EXCEPT
                        !.genes[d.i] = individual.genes[d.j],
                        !.genes[d.j] = individual.genes[d.i]]
                ELSE individual
           [] config.mutation_strategy = "shift" ->
                CASE d.mutation_type = "day" ->
                       [individual EXCEPT !.genes[d.idx].day = d.value - 1]
                  [] d.mutation_type = "time" ->
                       [individual EXCEPT !.genes[d.idx].time = d.value - 1]
                  [] OTHER ->
                       [individual EXCEPT !.genes[d.idx].room = d.value - 1]
           [] config.mutation_strategy = "random" ->
                [individual EXCEPT !.genes[d.idx].day = d.day - 1,
                                   !.genes[d.idx].time = d.time - 1,
                                   !.genes[d.idx].room = d.room - 1]
           [] OTHER -> individual

mutate_schedule(individual, d) ==
    IF ~d.mutate THEN individual
    ELSE CASE config.mutation_strategy = "swap" ->
                IF Len(individual.genes) >= 2
                THEN [individual EXCEPT
                        !.genes[d.i] = individual.genes[d.j],
                        !.genes[d.j] = individual.genes[d.i]]
                ELSE individual
           [] config.mutation_strategy = "shift" ->
                CASE d.mutation_type = "day" ->
                       [individual EXCEPT !.genes[d.idx].day = d.value]
                  [] d.mutation_type = "time" ->
                       [individual EXCEPT !.genes[d.idx].time = d.value]
                  [] OTHER ->
                       [individual EXCEPT !.genes[d.idx].room = d.value]
           [] config.mutation_strategy = "random" ->
                [individual EXCEPT !.genes[d.idx].day = d.day,
                                   !.genes[d.idx].time = d.time,
                                   !.genes[d.idx].room = d.room]
           [] OTHER -> individual

\* s without its element at position b
RemoveAt(s, b) == [i \in 1..(Len(s) - 1) |-> IF i < b THEN s[i] ELSE s[i + 1]]

\* tools.selBest: sorted(individuals, key=fitness, reverse=True)[:k]; the sort
\* is stable, so among equals the earlier one comes first.
RECURSIVE selBest(_, _)
selBest(individuals, k) ==
    IF k <= 0 \/ individuals = <<>> THEN <<>>
    ELSE LET b == CHOOSE a \in DOMAIN individuals :
                     /\ \A c \in DOMAIN individuals :
                          FLe(individuals[c].fitness[1], individuals[a].fitness[1])
                     /\ \A c \in DOMAIN individuals :
                          c < a => FLt(individuals[c].fitness[1],
                                       individuals[a].fitness[1])
         IN  <<individuals[b]>> \o selBest(RemoveAt(individuals, b), k - 1)

\* max(1, int(len(population) * elitism_rate)), the rate in percent
elite_count(population) == Max(1, (Len(population) * config.elitism_rate) \div 100)

\* offspring + elites: the slice forgotten.
ReplaceKeepAll(population, offspring) ==
    offspring \o selBest(population, elite_count(population))

\* The offspring alone: no elite is carried forward.
ReplaceWithoutElites(population, offspring) == offspring

\* offspring[:-elite_count] + elites
ReplacePopulation(population, offspring) ==
    LET ec == elite_count(population)
        elites == selBest(population, ec)
    IN  SubSeq(offspring, 1, Len(offspring) - ec) \o elites

\* A hall of fame that takes population[0] at every update.
HallOfFameTakeFirst(hof, population, i) == <<population[1]>>

\* tools.HallOfFame(1).update(population): an empty hall takes population[0];
\* afterwards an individual strictly fitter than the hall's last member, and
\* equal (operator.eq on the gene lists) to no member, replaces it.  The hall
\* stores deep copies.
RECURSIVE HallOfFameUpdate(_, _, _)
HallOfFameUpdate(hof, population, i) ==
    IF i > Len(population) THEN hof
    ELSE IF Len(hof) = 0
         THEN HallOfFameUpdate(<<population[1]>>, population, i + 1)
         ELSE LET ind == population[i]
                  better == FLt(hof[Len(hof)].fitness[1], ind.fitness[1])
                              \/ Len(hof) < HallOfFameSize
                  similar == \E h \in DOMAIN hof : hof[h].genes = ind.genes
              IN  IF better /\ ~similar
                  THEN HallOfFameUpdate(
                         (IF Len(hof) >= HallOfFameSize
                          THEN SubSeq(hof, 1, Len(hof) - 1) ELSE hof) \o <<ind>>,
                         population, i + 1)
                  ELSE HallOfFameUpdate(hof, population, i + 1)

\* ------------------------------------------------------- ScheduleGA.evolve
\* evolve's locals.  g.pc is the statement evolve stands at, g.k the position
\* of the running for loop, g.result what evolve returned (at most one value).
NewGA ==
    [ pc |-> "populate", population |-> <<>>, offspring |-> <<>>, hof |-> <<>>,
      history |-> <<>>, gen |-> 0, k |-> 1, error |-> None, result |-> <<>> ]

Raise(g, exception) == [g EXCEPT !.pc = "raised", !.error = exception]

\* A loop that runs one generation too many.
LoopHeadInclusive(gen) == IF gen <= config.generations THEN "evaluate" ELSE "finish"

\* for gen in range(self.config["generations"])
LoopHead(gen) == IF gen < config.generations THEN "evaluate" ELSE "finish"

\* ScheduleGA(entities, constraints, config) followed by the call of evolve,
\* up to the first create_individual call of toolbox.population(n).
StartEvolve ==
    IF config.population_size = 0
    THEN [NewGA EXCEPT !.pc = LoopHead(0)]
    ELSE NewGA

\* One create_individual call of tools.initRepeat.
PopulateStep(g, draw) ==
    LET population == Append(g.population, create_individual(draw)) IN
    [g EXCEPT !.population = population,
              !.pc = IF Len(population) < config.population_size
                     THEN "populate" ELSE LoopHead(0)]

\* stats.compile(population): np.mean, np.max, np.min (np.std is not
\* modelled: nothing reads it).
Compile(population) ==
    LET fits == [i \in DOMAIN population |-> population[i].fitness[1]] IN
    [ avg |-> FDiv(FSum(fits), Float(Len(fits))),
      max |-> MaxSeq(fits),
      min |-> MinSeq(fits) ]

\* The loop body from the evaluation to the early-stopping test.  np.max
\* raises ValueError on an empty population.
EvaluateStep(g) ==
    IF g.population = <<>> THEN Raise(g, "ValueError")
    ELSE
    LET population == [i \in DOMAIN g.population |->
                         [g.population[i] EXCEPT
                            !.fitness = evaluate_fitness(g.population[i])]]
        record == Compile(population)
    IN  [g EXCEPT
           !.population = population,
           !.hof = HallOfFameUpdate(g.hof, population, 1),
           !.history = Append(g.history,
                              [ generation |-> g.gen,
                                avg_fitness |-> record.avg,
                                max_fitness |-> record.max,
                                min_fitness |-> record.min ]),
           !.pc = IF FLe(Float(BaselineScore), record.max)
                  THEN "finish" ELSE "select"]

\* zip(offspring[::2], offspring[1::2]) has len(offspring) // 2 pairs
PairCount(g) == Len(g.population) \div 2

\* One tournament of toolbox.select(population, len(population)), cloned.
SelectStep(g, aspirants) ==
    LET offspring == Append(g.offspring, TournamentWinner(g.population, aspirants)) IN
    [g EXCEPT !.offspring = offspring,
              !.k = 1,
              !.pc = IF Len(offspring) < Len(g.population) THEN "select"
                     ELSE IF PairCount(g) >= 1 THEN "mate" ELSE "mutate"]

\* One iteration of the crossover loop, on the pair g.k.
MateStep(g, d) ==
    LET c1 == 2 * g.k - 1
        c2 == 2 * g.k
        child1 == g.offspring[c1]
        child2 == g.offspring[c2]
        last == g.k >= PairCount(g)
        next == [g EXCEPT !.k = IF last THEN 1 ELSE g.k + 1,
                          !.pc = IF last THEN "mutate" ELSE "mate"]
    IN  IF ~d.mate THEN next
        ELSE IF cxTwoPointRaises(child1, child2) THEN Raise(g, "ValueError")
        ELSE LET mated == cxTwoPoint(child1, child2, d.r1, d.r2) IN
             [next EXCEPT
                !.offspring[c1] = [mated[1] EXCEPT !.fitness = NoFitness],
                !.offspring[c2] = [mated[2] EXCEPT !.fitness = NoFitness]]

MateStepDraws(g) ==
    LET child1 == g.offspring[2 * g.k - 1]
        child2 == g.offspring[2 * g.k]
    IN  MateDraws(child1, child2)
          \cup (IF cxTwoPointRaises(child1, child2) THEN {[mate |-> TRUE]} ELSE {})

\* One iteration of the mutation loop, on the offspring g.k.
MutateStep(g, d) ==
    LET last == g.k >= Len(g.offspring) IN
    IF MutateRaises(g.offspring[g.k], d) THEN Raise(g, "ValueError")
    ELSE
    [g EXCEPT
       !.offspring[g.k] = [mutate_schedule(g.offspring[g.k], d) EXCEPT
                             !.fitness = NoFitness],
       !.k = IF last THEN 1 ELSE g.k + 1,
       !.pc = IF last THEN "replace" ELSE "mutate"]

\* population[:] = offspring[:-elite_count] + elites, and the loop's next turn.
ReplaceStep(g) ==
    [g EXCEPT !.population = ReplacePopulation(g.population, g.offspring),
              !.offspring = <<>>,
              !.gen = g.gen + 1,
              !.pc = LoopHead(g.gen + 1)]

\* best = hof[0] raises IndexError on an empty hall of fame.
FinishStep(g) ==
    IF g.hof = <<>> THEN Raise(g, "IndexError")
    ELSE [g EXCEPT !.pc = "returned",
                   !.result = << [ schedule |-> g.hof[1].genes,
                                   fitness |-> g.hof[1].fitness[1],
                                   history |-> g.history ] >>]

\* ------------------------------------------------------- GeminiScheduler
\* What a call returns (ret) or the exception it raises (exc).
Ok(value) == [exc |-> None, ret |-> value]
Exc(exception) == [exc |-> exception, ret |-> <<>>]

\* An odometer whose day counter is never advanced.
RECURSIVE FallbackRowsDayStuck(_, _, _, _, _)
FallbackRowsDayStuck(ents, i, day_idx, time_idx, room_idx) ==
    IF i > Len(ents) THEN <<>>
    ELSE LET row == [ entity_id |-> ents[i].id,
                      day |-> days[(day_idx % Len(days)) + 1],
                      time |-> time_slots[(time_idx % Len(time_slots)) + 1],
                      room |-> rooms[(room_idx % Len(rooms)) + 1],
                      duration |-> Get(ents[i], "duration", DefaultDurationFallback) ]
             roomWraps == room_idx + 1 >= Len(rooms)
             room_next == IF roomWraps THEN 0 ELSE room_idx + 1
             time_moved == IF roomWraps THEN time_idx + 1 ELSE time_idx
             time_next == IF time_moved >= Len(time_slots) THEN 0 ELSE time_moved
         IN  <<row>> \o FallbackRowsDayStuck(ents, i + 1, day_idx, time_next, room_next)

\* The rows after the first i - 1, the odometer standing at the given
\* counters.  x % len(list) raises ZeroDivisionError on an empty list.
RECURSIVE FallbackRows(_, _, _, _, _)
FallbackRows(ents, i, day_idx, time_idx, room_idx) ==
    IF i > Len(ents) THEN <<>>
    ELSE LET row == [ entity_id |-> ents[i].id,
                      day |-> days[(day_idx % Len(days)) + 1],
                      time |-> time_slots[(time_idx % Len(time_slots)) + 1],
                      room |-> rooms[(room_idx % Len(rooms)) + 1],
                      duration |-> Get(ents[i], "duration", DefaultDurationFallback) ]
             roomWraps == room_idx + 1 >= Len(rooms)
             room_next == IF roomWraps THEN 0 ELSE room_idx + 1
             time_moved == IF roomWraps THEN time_idx + 1 ELSE time_idx
             timeWraps == time_moved >= Len(time_slots)
             time_next == IF timeWraps THEN 0 ELSE time_moved
             day_next == IF timeWraps THEN day_idx + 1 ELSE day_idx
         IN  <<row>> \o FallbackRows(ents, i + 1, day_next, time_next, room_next)

generate_fallback_schedule(ents) ==
    IF ents # <<>> /\ (days = <<>> \/ time_slots = <<>> \/ rooms = <<>>)
    THEN Exc("ZeroDivisionError")
    ELSE Ok(FallbackRows(ents, 1, 0, 0, 0))

\* The rows an advisor may send: with an entity_id (id 0 is no entity's id)
\* or without one.
AdvisorRows ==
    {[entity_id |-> e, day |-> 1, time |-> 1, room |-> 1] : e \in 0..MaxEntities}
      \cup {[day |-> 1, time |-> 1, room |-> 1]}

RECURSIVE SeqsUpTo(_, _)
SeqsUpTo(S, n) ==
    IF n = 0 THEN {<<>>}
    ELSE LET shorter == SeqsUpTo(S, n - 1) IN
         shorter \cup {Append(q, x) : q \in shorter, x \in S}

\* A response text by what parse_response makes of it: json.loads fails
\* ("invalid"), there is no [...] in it ("no_array"), or it holds an array.
AdvisorTexts ==
    {[json |-> "invalid"], [json |-> "no_array"]}
      \cup {[json |-> "array", rows |-> r] : r \in SeqsUpTo(AdvisorRows, MaxRows)}

\* What self.model.generate_content does: it raises, or answers with no
\* candidate, or with a candidate of some finish reason and maybe a text
\* (text <<>> is no text).
NoResponse == [kind |-> "none"]

AdvisorResponses ==
    {[kind |-> "raises"], [kind |-> "no_candidates"]}
      \cup {[kind |-> "candidate", finish_reason |-> f, text |-> <<>>] : f \in 0..4}
      \cup {[kind |-> "candidate", finish_reason |-> 1, text |-> <<t>>] :
              t \in AdvisorTexts}

parse_response(response_text, ents) ==
    IF response_text.json = "array"
    THEN LET valid_schedule ==
                 SelectSeq(response_text.rows, LAMBDA slot : "entity_id" \in DOMAIN slot)
         IN  IF Len(valid_schedule) = 0
             THEN generate_fallback_schedule(ents)
             ELSE Ok(valid_schedule)
    ELSE generate_fallback_schedule(ents)

generate_schedule_suggestions(ents, answer) ==
    IF answer.kind = "raises" THEN generate_fallback_schedule(ents)
    ELSE IF answer.kind = "no_candidates" THEN generate_fallback_schedule(ents)
    ELSE IF answer.finish_reason = 2 THEN generate_fallback_schedule(ents)
    ELSE IF answer.finish_reason = 3 THEN generate_fallback_schedule(ents)
    ELSE IF answer.finish_reason \notin {0, 1} THEN generate_fallback_schedule(ents)
    ELSE IF answer.text # <<>> THEN parse_response(answer.text[1], ents)
    ELSE generate_fallback_schedule(ents)

\* ------------------------------------------------------- HybridOptimizer
Methods == {"gemini", "genetic", "hybrid", "other"}

\* One call progress_callback(generation, best, avg, std, message).
Progress(generation, best, avg, message) ==
    [generation |-> generation, best |-> best, avg |-> avg, message |-> message]

Notice(message) == Progress(0, 0, 0, message)

\* The call ga_progress makes for the generation evolve just evaluated.
GenerationProgress(g, message) ==
    LET entry == g.history[Len(g.history)] IN
    Progress(entry.generation, entry.max_fitness, entry.avg_fitness, message)

\* The state after HybridOptimizer(entities, constraints, config).
Init ==
    /\ entities \in EntityLists
    /\ constraints \in ConstraintLists
    /\ config \in Configs
    /\ pc = "idle"
    /\ method = None
    /\ ga = NewGA
    /\ ga2 = NewGA
    /\ stop = FALSE
    /\ has_seed = "False"
    /\ gemini_solution = <<>>
    /\ advisor_calls = 0
    /\ response = NoResponse
    /\ sink = <<>>
    /\ result = <<>>
    /\ error = None

\* A dispatch whose last branch is the hybrid optimizer.
DispatchElseHybrid(m) == IF m \in {"gemini", "genetic"} THEN m ELSE "hybrid"

\* The branch optimize takes for a method: one of the three optimizers, or
\* the raise of the else branch.
Dispatch(m) == IF m \in {"gemini", "genetic", "hybrid"} THEN m ELSE "raise"

\* optimize(method, progress_callback) up to the advisor call, the start of
\* evolve, or the ValueError of an unknown method.
OptimizeCall(m) ==
    /\ pc = "idle"
    /\ method' = m
    /\ CASE Dispatch(m) = "gemini" ->
              /\ sink' = <<Notice("Initializing Gemini AI..."),
                          Notice("Sending request to Gemini API...")>>
              /\ pc' = "advisor"
              /\ UNCHANGED <<ga, error>>
         [] Dispatch(m) = "genetic" ->
              /\ sink' = <<Notice("Initializing Genetic Algorithm...")>>
              /\ ga' = StartEvolve
              /\ pc' = "evolve"
              /\ UNCHANGED error
         [] Dispatch(m) = "hybrid" ->
              /\ sink' = <<Notice("Phase 1: Attempting AI seed generation...")>>
              /\ pc' = "advisor"
              /\ UNCHANGED <<ga, error>>
         [] OTHER ->
              /\ pc' = "raised"
              /\ error' = "ValueError"
              /\ UNCHANGED <<ga, sink>>
    /\ UNCHANGED <<entities, constraints, config, has_seed, gemini_solution,
                   advisor_calls, response, result>>

Optimize ==
    /\ \E m \in Methods : OptimizeCall(m)
    /\ UNCHANGED <<ga2, stop>>

\* optimize_with_gemini from the advisor's answer on: a raising
\* generate_schedule_suggestions is answered by the fallback scheduler, whose
\* own exception goes to the caller.
GeminiRespond(answer) ==
    LET first == generate_schedule_suggestions(entities, answer)
        schedule == IF first.exc = None THEN first
                    ELSE generate_fallback_schedule(entities)
    IN  /\ method = "gemini"
        /\ IF schedule.exc = None
           THEN /\ sink' = sink \o <<Notice("Processing response..."), Notice("Complete!")>>
                /\ result' = << [ schedule |-> schedule.ret, method |-> "gemini",
                                  fitness |-> None, history |-> <<>> ] >>
                /\ pc' = "returned"
                /\ UNCHANGED error
           ELSE /\ pc' = "raised"
                /\ error' = schedule.exc
                /\ UNCHANGED <<sink, result>>
        /\ UNCHANGED <<ga, has_seed, gemini_solution>>

\* The Python values has_seed takes, by their repr: `gemini_solution and
\* len(gemini_solution) > 0` is the empty list itself when the adapter
\* returned one, and True otherwise; the except branch assigns False.
SeedFlag(suggested) ==
    IF suggested.exc # None THEN "False"
    ELSE IF suggested.ret = <<>> THEN "[]"
    ELSE "True"

\* bool(value) of such a value
Truthy(value) == value = "True"

\* A hybrid run whose first Individual is the advisor's proposal.
HybridGASeeded(seed_found, seed) ==
    IF Truthy(seed_found)
    THEN [StartEvolve EXCEPT
            !.population = <<[genes |-> seed, fitness |-> NoFitness]>>]
    ELSE StartEvolve

\* The ScheduleGA optimize_hybrid builds and runs: the seed is passed to
\* nothing ("Seeding removed ... GA will initialize randomly").
HybridGA(seed_found, seed) == StartEvolve

\* self.entities[:30]
SeedEntities == SubSeq(entities, 1, Min(Len(entities), 30))

\* optimize_hybrid from the advisor's answer to the call of evolve: the bare
\* except turns any exception into has_seed = False.
HybridRespond(answer) ==
    LET suggested == generate_schedule_suggestions(SeedEntities, answer) IN
    /\ method = "hybrid"
    /\ gemini_solution' = IF suggested.exc = None THEN suggested.ret ELSE <<>>
    /\ has_seed' = SeedFlag(suggested)
    /\ sink' = sink \o
         << Notice(IF Truthy(has_seed') THEN "Phase 1: AI seed generated"
                   ELSE "Phase 1: Skipping AI seed, using random init"),
            Notice("Phase 2: Starting genetic algorithm...") >>
    /\ ga' = HybridGA(has_seed', gemini_solution')
    /\ pc' = "evolve"
    /\ UNCHANGED <<result, error>>

\* An advisor call that is made again after it raised.
AdvisorAnswerRetried(answer) ==
    /\ pc = "advisor"
    /\ advisor_calls' = advisor_calls + (IF answer.kind = "raises" THEN 2 ELSE 1)
    /\ response' = answer
    /\ \/ GeminiRespond(answer)
       \/ HybridRespond(answer)
    /\ UNCHANGED <<entities, constraints, config, method>>

\* self.model.generate_content(...) answers, once.
AdvisorAnswer(answer) ==
    /\ pc = "advisor"
    /\ advisor_calls' = advisor_calls + 1
    /\ response' = answer
    /\ \/ GeminiRespond(answer)
       \/ HybridRespond(answer)
    /\ UNCHANGED <<entities, constraints, config, method>>

AdvisorRespond ==
    /\ \E answer \in AdvisorResponses : AdvisorAnswer(answer)
    /\ UNCHANGED <<ga2, stop>>

\* An exception of evolve goes through optimize to the caller.
Propagate ==
    /\ pc' = IF ga'.pc = "raised" THEN "raised" ELSE pc
    /\ error' = IF ga'.pc = "raised" THEN ga'.error ELSE error

\* What the steps of evolve leave alone.  The advisor's answer and
\* gemini_solution are read by nothing once evolve runs, and are dropped.
EvolveFrame ==
    /\ response' = NoResponse
    /\ gemini_solution' = <<>>
    /\ UNCHANGED <<entities, constraints, config, method, has_seed,
                   advisor_calls, result>>

\* The draws of one create_individual call: none when random.choice raises.
PopulateDraws == IF CreateIndividualRaises THEN {<<>>} ELSE IndividualDraws

\* One create_individual call, or the IndexError of random.choice([]).
PopulateOrRaise(g, draw) ==
    IF CreateIndividualRaises THEN Raise(g, "IndexError") ELSE PopulateStep(g, draw)

\* toolbox.population(n): one create_individual call.
PopulateOn(draw) ==
    /\ pc = "evolve" /\ ga.pc = "populate"
    /\ ga' = PopulateOrRaise(ga, draw)
    /\ Propagate
    /\ UNCHANGED sink
    /\ EvolveFrame

Populate ==
    /\ \E draw \in PopulateDraws : PopulateOn(draw)
    /\ UNCHANGED <<ga2, stop>>

\* A generation whose progress callback comes after the early-stopping test.
EvaluateGenerationReportedLate ==
    /\ pc = "evolve" /\ ga.pc = "evaluate"
    /\ ga' = EvaluateStep(ga)
    /\ sink' = IF ga'.pc # "select" THEN sink
               ELSE Append(sink, GenerationProgress(ga',
                      IF method = "hybrid" THEN "Evolution" ELSE "Generation"))
    /\ Propagate
    /\ EvolveFrame

\* Evaluation, statistics, hall of fame, history, progress callback and the
\* early-stopping test of one generation.
EvaluateGeneration ==
    /\ pc = "evolve" /\ ga.pc = "evaluate"
    /\ ga' = EvaluateStep(ga)
    /\ sink' = IF ga'.pc = "raised" THEN sink
               ELSE Append(sink, GenerationProgress(ga',
                      IF method = "hybrid" THEN "Evolution" ELSE "Generation"))
    /\ Propagate
    /\ EvolveFrame

Evaluate == EvaluateGeneration /\ UNCHANGED <<ga2, stop>>

SelectOn(aspirants) ==
    /\ pc = "evolve" /\ ga.pc = "select"
    /\ ga' = SelectStep(ga, aspirants)
    /\ UNCHANGED <<pc, error, sink>>
    /\ EvolveFrame

Select ==
    /\ \E aspirants \in AspirantDraws(ga.population, config.tournament_size) :
         SelectOn(aspirants)
    /\ UNCHANGED <<ga2, stop>>

MateOn(d) ==
    /\ pc = "evolve" /\ ga.pc = "mate"
    /\ ga' = MateStep(ga, d)
    /\ Propagate
    /\ UNCHANGED sink
    /\ EvolveFrame

Mate ==
    /\ pc = "evolve" /\ ga.pc = "mate"
    /\ \E d \in MateStepDraws(ga) : MateOn(d)
    /\ UNCHANGED <<ga2, stop>>

MutateOn(d) ==
    /\ pc = "evolve" /\ ga.pc = "mutate"
    /\ ga' = MutateStep(ga, d)
    /\ Propagate
    /\ UNCHANGED sink
    /\ EvolveFrame

Mutate ==
    /\ pc = "evolve" /\ ga.pc = "mutate"
    /\ \E d \in MutationDraws(ga.offspring[ga.k]) : MutateOn(d)
    /\ UNCHANGED <<ga2, stop>>

ReplaceGeneration ==
    /\ pc = "evolve" /\ ga.pc = "replace"
    /\ ga' = ReplaceStep(ga)
    /\ UNCHANGED <<pc, error, sink>>
    /\ EvolveFrame

Replace == ReplaceGeneration /\ UNCHANGED <<ga2, stop>>

\* The result optimize_with_ga builds from what evolve returned.
GeneticResult(r) ==
    [ schedule |-> r.schedule, fitness |-> r.fitness, history |-> r.history,
      method |-> "genetic" ]

\* The result optimize_hybrid builds from what evolve returned.
HybridResult(r, seed_found) ==
    [ schedule |-> r.schedule, fitness |-> r.fitness, history |-> r.history,
      method |-> "hybrid", gemini_seed |-> seed_found ]

\* evolve returns; optimize_with_ga and optimize_hybrid complete the result.
FinishRun ==
    /\ pc = "evolve" /\ ga.pc = "finish"
    /\ ga' = FinishStep(ga)
    /\ IF ga'.pc = "raised"
       THEN /\ pc' = "raised"
            /\ error' = ga'.error
            /\ UNCHANGED <<sink, result>>
       ELSE LET r == ga'.result[1] IN
            /\ pc' = "returned"
            /\ UNCHANGED error
            /\ IF method = "hybrid"
               THEN /\ result' = <<HybridResult(r, has_seed)>>
                    /\ sink' = Append(sink,
                         Progress(IF r.history # <<>>
                                  THEN r.history[Len(r.history)].generation ELSE 0,
                                  r.fitness,
                                  IF r.history # <<>>
                                  THEN r.history[Len(r.history)].avg_fitness
                                  ELSE 0,
                                  "Optimization Complete!"))
               ELSE /\ result' = <<GeneticResult(r)>>
                    /\ UNCHANGED sink
    /\ response' = NoResponse
    /\ gemini_solution' = <<>>
    /\ UNCHANGED <<entities, constraints, config, method, has_seed, advisor_calls>>

Finish == FinishRun /\ UNCHANGED <<ga2, stop>>

Next ==
    \/ Optimize
    \/ AdvisorRespond
    \/ Populate
    \/ Evaluate
    \/ Select
    \/ Mate
    \/ Mutate
    \/ Replace
    \/ Finish

Spec == Init /\ [][Next]_vars

\* ------------------------------------------- hybrid and genetic, side by side
\* optimize("hybrid") on ga and optimize("genetic") on ga2, on the same
\* entities, constraints and config; every draw of the random module is handed
\* to both.  The advisor's answer is drawn for the hybrid call alone: the
\* genetic call has no advisor.
PairOptimize ==
    /\ OptimizeCall("hybrid")
    /\ UNCHANGED <<ga2, stop>>

\* The hybrid call gets its answer and reaches evolve; the genetic call
\* reaches its own evolve (optimize_with_ga).
PairAdvisorRespond ==
    /\ UNCHANGED stop
    /\ \E answer \in AdvisorResponses : AdvisorAnswer(answer)
    /\ ga2' = StartEvolve

PairPopulate ==
    /\ UNCHANGED stop
    /\ ga2.pc = "populate"
    /\ \E draw \in PopulateDraws :
         /\ PopulateOn(draw)
         /\ ga2' = PopulateOrRaise(ga2, draw)

PairEvaluate ==
    /\ UNCHANGED stop
    /\ ga2.pc = "evaluate"
    /\ EvaluateGeneration
    /\ ga2' = EvaluateStep(ga2)

PairSelect ==
    /\ UNCHANGED stop
    /\ pc = "evolve" /\ ga.pc = "select" /\ ga2.pc = "select"
    /\ Len(ga2.population) = Len(ga.population)
    /\ \E aspirants \in AspirantDraws(ga.population, config.tournament_size) :
         /\ SelectOn(aspirants)
         /\ ga2' = SelectStep(ga2, aspirants)

PairMate ==
    /\ UNCHANGED stop
    /\ pc = "evolve" /\ ga.pc = "mate" /\ ga2.pc = "mate"
    /\ ga2.k = ga.k /\ Len(ga2.offspring) = Len(ga.offspring)
    /\ \E d \in MateStepDraws(ga) :
         /\ MateOn(d)
         /\ ga2' = MateStep(ga2, d)

PairMutate ==
    /\ UNCHANGED stop
    /\ pc = "evolve" /\ ga.pc = "mutate" /\ ga2.pc = "mutate"
    /\ ga2.k = ga.k /\ Len(ga2.offspring) = Len(ga.offspring)
    /\ \E d \in MutationDraws(ga.offspring[ga.k]) :
         /\ MutateOn(d)
         /\ ga2' = MutateStep(ga2, d)

PairReplace ==
    /\ UNCHANGED stop
    /\ ga2.pc = "replace"
    /\ ReplaceGeneration
    /\ ga2' = ReplaceStep(ga2)

PairFinish ==
    /\ UNCHANGED stop
    /\ ga2.pc = "finish"
    /\ FinishRun
    /\ ga2' = FinishStep(ga2)

PairNext ==
    \/ PairOptimize
    \/ PairAdvisorRespond
    \/ PairPopulate
    \/ PairEvaluate
    \/ PairSelect
    \/ PairMate
    \/ PairMutate
    \/ PairReplace
    \/ PairFinish

SpecPair == Init /\ [][PairNext]_vars

\* ------------------------------------------- a sink that asks for the stop
\* optimize("genetic") with a progress sink that may answer a per-generation
\* report with a stop signal.  ga_progress drops what the sink returns and
\* evolve drops what ga_progress returns, so the run goes on as without it.
CancelOptimize ==
    /\ OptimizeCall("genetic")
    /\ UNCHANGED <<ga2, stop>>

CancelEvaluate ==
    /\ EvaluateGeneration
    /\ \E signal \in BOOLEAN : stop' = (stop \/ (signal /\ ga'.pc # "raised"))
    /\ UNCHANGED ga2

CancelNext ==
    \/ CancelOptimize
    \/ Populate
    \/ CancelEvaluate
    \/ Select
    \/ Mate
    \/ Mutate
    \/ Replace
    \/ Finish

SpecCancel == Init /\ [][CancelNext]_vars

\* --------------------------------------- the fallback scheduler on its own
\* GeminiScheduler._generate_fallback_schedule(entities, config) called on
\* entity lists and resource lists of its own sizes; the rows it returns
\* are kept in gemini_solution.
FallbackConfigs ==
    { [ population_size |-> 0, generations |-> 0,
        tournament_size |-> DefaultTournamentSize,
        elitism_rate |-> 10, mutation_strategy |-> "swap",
        fitness_method |-> "weighted",
        weight_no_overlap |-> DefaultWeightNoOverlap,
        weight_room_capacity |-> DefaultWeightRoomCapacity,
        weight_availability |-> DefaultWeightAvailability,
        weight_preferred_time |-> DefaultWeightPreferredTime,
        weight_balanced_distribution |-> DefaultWeightBalancedDistribution,
        weight_consecutive_slots |-> DefaultWeightConsecutiveSlots,
        weight_gap_penalty |-> DefaultWeightGapPenalty,
        days |-> Names(nd), time_slots |-> Names(nt), rooms |-> Names(nr),
        room_capacities |-> RoomCapacities(Names(nr)) ] :
        nd \in 0..MaxFallbackDays, nt \in 0..MaxFallbackTimes,
        nr \in 0..MaxFallbackRooms }

FallbackInit ==
    /\ entities \in {[i \in 1..n |-> EntityAt(i)] : n \in 0..MaxFallbackEntities}
    /\ constraints = <<>>
    /\ config \in FallbackConfigs
    /\ pc = "idle"
    /\ method = None
    /\ ga = NewGA
    /\ ga2 = NewGA
    /\ stop = FALSE
    /\ has_seed = "False"
    /\ gemini_solution = <<>>
    /\ advisor_calls = 0
    /\ response = NoResponse
    /\ sink = <<>>
    /\ result = <<>>
    /\ error = None

FallbackCall ==
    /\ pc = "idle"
    /\ LET schedule == generate_fallback_schedule(entities) IN
       /\ gemini_solution' = schedule.ret
       /\ error' = schedule.exc
       /\ pc' = IF schedule.exc = None THEN "returned" ELSE "raised"
    /\ UNCHANGED <<entities, constraints, config, method, ga, ga2, stop, has_seed,
                   advisor_calls, response, sink, result>>

FallbackNext == FallbackCall

SpecFallback == FallbackInit /\ [][FallbackNext]_vars

\* ------------------------------------------- two entities on a single slot
\* optimize("genetic") on two entities, one no_overlap constraint and a
\* single day, time slot and room.  Under the shift and random strategies
\* the population has ScenarioPopulationSize Individuals; under swap, whose
\* gene orders multiply the populations, it has at most MaxSwapPopulation.
ScenarioConfigs ==
    { [ population_size |-> n, generations |-> ScenarioGenerations,
        tournament_size |-> DefaultTournamentSize,
        elitism_rate |-> er, mutation_strategy |-> ms,
        fitness_method |-> "weighted",
        weight_no_overlap |-> DefaultWeightNoOverlap,
        weight_room_capacity |-> DefaultWeightRoomCapacity,
        weight_availability |-> DefaultWeightAvailability,
        weight_preferred_time |-> DefaultWeightPreferredTime,
        weight_balanced_distribution |-> DefaultWeightBalancedDistribution,
        weight_consecutive_slots |-> DefaultWeightConsecutiveSlots,
        weight_gap_penalty |-> DefaultWeightGapPenalty,
        days |-> Names(1), time_slots |-> Names(1), rooms |-> Names(1),
        room_capacities |-> RoomCapacities(Names(1)) ] :
        n \in 1..ScenarioPopulationSize, er \in ElitismRates,
        ms \in MutationStrategies }

ScenarioInit ==
    /\ entities = [i \in 1..2 |-> EntityAt(i)]
    /\ constraints = <<[type |-> "no_overlap"]>>
    /\ config \in {c \in ScenarioConfigs :
                     IF c.mutation_strategy = "swap"
                     THEN c.population_size <= MaxSwapPopulation
                     ELSE c.population_size = ScenarioPopulationSize}
    /\ pc = "idle"
    /\ method = None
    /\ ga = NewGA
    /\ ga2 = NewGA
    /\ stop = FALSE
    /\ has_seed = "False"
    /\ gemini_solution = <<>>
    /\ advisor_calls = 0
    /\ response = NoResponse
    /\ sink = <<>>
    /\ result = <<>>
    /\ error = None

ScenarioOptimize ==
    /\ OptimizeCall("genetic")
    /\ UNCHANGED <<ga2, stop>>

ScenarioNext ==
    \/ ScenarioOptimize
    \/ Populate
    \/ Evaluate
    \/ Select
    \/ Mate
    \/ Mutate
    \/ Replace
    \/ Finish

SpecScenario == ScenarioInit /\ [][ScenarioNext]_vars

\* ------------------------------------------ one Individual and its fitness
\* ScheduleGA(entities, constraints, config) on constraint lists of every
\* type, both fitness methods and a light and a heavy overlap weight; one
\* Individual is created (toolbox.individual) and evaluated
\* (toolbox.evaluate).  The Individual is kept in ga.population.
FitnessConstraintLists ==
    LET no_overlap == [type |-> "no_overlap"]
        room_capacity == [type |-> "room_capacity"]
        availability == [type |-> "availability", entity_id |-> 1,
                         unavailable_slots |-> {<<1, 1>>}]
        preferred_time == [type |-> "preferred_time", entity_id |-> 1,
                           preferred_slots |-> {<<1, 1>>}]
        balanced_distribution == [type |-> "balanced_distribution"]
        consecutive_slots == [type |-> "consecutive_slots", entity_id |-> 1]
        minimize_gaps == [type |-> "minimize_gaps"]
    IN  { <<>>, <<no_overlap>>, <<room_capacity>>, <<availability>>,
          <<preferred_time>>, <<balanced_distribution>>, <<consecutive_slots>>,
          <<minimize_gaps>>,
          <<no_overlap, room_capacity, availability, preferred_time,
            balanced_distribution, consecutive_slots, minimize_gaps>> }

FitnessConfigs ==
    { [ population_size |-> 1, generations |-> 1,
        tournament_size |-> DefaultTournamentSize,
        elitism_rate |-> 10, mutation_strategy |-> "swap",
        fitness_method |-> fm,
        weight_no_overlap |-> w,
        weight_room_capacity |-> DefaultWeightRoomCapacity,
        weight_availability |-> DefaultWeightAvailability,
        weight_preferred_time |-> DefaultWeightPreferredTime,
        weight_balanced_distribution |-> DefaultWeightBalancedDistribution,
        weight_consecutive_slots |-> DefaultWeightConsecutiveSlots,
        weight_gap_penalty |-> DefaultWeightGapPenalty,
        days |-> Names(nd), time_slots |-> Names(nt), rooms |-> Names(nr),
        room_capacities |-> RoomCapacities(Names(nr)) ] :
        fm \in {"weighted", "penalty_based"},
        w \in {DefaultWeightNoOverlap, 6 * DefaultWeightNoOverlap},
        nd \in 0..MaxFitnessDays, nt \in 0..MaxFitnessTimes,
        nr \in 0..MaxFitnessRooms }

FitnessInit ==
    /\ entities \in {[i \in 1..n |-> EntityAt(i)] : n \in 0..MaxFitnessEntities}
    /\ constraints \in FitnessConstraintLists
    /\ config \in FitnessConfigs
    /\ pc = "idle"
    /\ method = None
    /\ ga = NewGA
    /\ ga2 = NewGA
    /\ stop = FALSE
    /\ has_seed = "False"
    /\ gemini_solution = <<>>
    /\ advisor_calls = 0
    /\ response = NoResponse
    /\ sink = <<>>
    /\ result = <<>>
    /\ error = None

FitnessFrame ==
    UNCHANGED <<entities, constraints, config, method, ga2, stop, has_seed,
                gemini_solution, advisor_calls, response, sink, result>>

\* toolbox.individual()
FitnessCreate ==
    /\ pc = "idle"
    /\ \E draw \in PopulateDraws :
         IF CreateIndividualRaises
         THEN /\ pc' = "raised"
              /\ error' = "IndexError"
              /\ UNCHANGED ga
         ELSE /\ pc' = "created"
              /\ ga' = [ga EXCEPT !.population = <<create_individual(draw)>>]
              /\ UNCHANGED error
    /\ FitnessFrame

\* individual.fitness.values = toolbox.evaluate(individual)
FitnessEvaluate ==
    /\ pc = "created"
    /\ ga' = [ga EXCEPT !.population[1].fitness = evaluate_fitness(ga.population[1])]
    /\ pc' = "returned"
    /\ UNCHANGED error
    /\ FitnessFrame

FitnessNext ==
    \/ FitnessCreate
    \/ FitnessEvaluate

SpecFitness == FitnessInit /\ [][FitnessNext]_vars

\* ------------------------------------- hard and soft constraints together
\* optimize("genetic") on two entities and constraint lists that pair a hard
\* constraint with a preference, under both fitness methods.
SoftConstraintLists ==
    LET no_overlap == [type |-> "no_overlap"]
        room_capacity == [type |-> "room_capacity"]
        availability == [type |-> "availability", entity_id |-> 1,
                         unavailable_slots |-> {<<1, 1>>}]
        preferred_time == [type |-> "preferred_time", entity_id |-> 1,
                           preferred_slots |-> {<<1, 1>>}]
        balanced_distribution == [type |-> "balanced_distribution"]
        consecutive_slots == [type |-> "consecutive_slots", entity_id |-> 1]
        minimize_gaps == [type |-> "minimize_gaps"]
    IN  { <<no_overlap, preferred_time>>,
          <<no_overlap, balanced_distribution>>,
          <<room_capacity, consecutive_slots>>,
          <<availability, minimize_gaps>> }

SoftConfigs ==
    { [ population_size |-> n, generations |-> g,
        tournament_size |-> DefaultTournamentSize,
        elitism_rate |-> 10, mutation_strategy |-> ms,
        fitness_method |-> fm,
        weight_no_overlap |-> DefaultWeightNoOverlap,
        weight_room_capacity |-> DefaultWeightRoomCapacity,
        weight_availability |-> DefaultWeightAvailability,
        weight_preferred_time |-> DefaultWeightPreferredTime,
        weight_balanced_distribution |-> DefaultWeightBalancedDistribution,
        weight_consecutive_slots |-> DefaultWeightConsecutiveSlots,
        weight_gap_penalty |-> DefaultWeightGapPenalty,
        days |-> Names(nd), time_slots |-> Names(nt), rooms |-> Names(1),
        room_capacities |-> RoomCapacities(Names(1)) ] :
        n \in 1..MaxPop, g \in 1..MaxGen, ms \in MutationStrategies,
        fm \in {"weighted", "penalty_based"},
        nd \in 1..MaxSoftDays, nt \in 1..MaxSoftTimes }

SoftInit ==
    /\ entities = [i \in 1..2 |-> EntityAt(i)]
    /\ constraints \in SoftConstraintLists
    /\ config \in SoftConfigs
    /\ pc = "idle"
    /\ method = None
    /\ ga = NewGA
    /\ ga2 = NewGA
    /\ stop = FALSE
    /\ has_seed = "False"
    /\ gemini_solution = <<>>
    /\ advisor_calls = 0
    /\ response = NoResponse
    /\ sink = <<>>
    /\ result = <<>>
    /\ error = None

SoftOptimize ==
    /\ OptimizeCall("genetic")
    /\ UNCHANGED <<ga2, stop>>

SoftNext ==
    \/ SoftOptimize
    \/ Populate
    \/ Evaluate
    \/ Select
    \/ Mate
    \/ Mutate
    \/ Replace
    \/ Finish

SpecSoft == SoftInit /\ [][SoftNext]_vars

\* ------------------------------------------- two Individuals, one ranking
\* ScheduleGA(entities, constraints, config) with fitness_method
\* "penalty_based", a no_overlap and a room_capacity constraint and the
\* default weights, on one day and one time slot; two Individuals are created
\* and evaluated, and kept in ga.population.
PenaltyConfigs ==
    { [ population_size |-> 2, generations |-> 1,
        tournament_size |-> DefaultTournamentSize,
        elitism_rate |-> 10, mutation_strategy |-> "swap",
        fitness_method |-> "penalty_based",
        weight_no_overlap |-> DefaultWeightNoOverlap,
        weight_room_capacity |-> DefaultWeightRoomCapacity,
        weight_availability |-> DefaultWeightAvailability,
        weight_preferred_time |-> DefaultWeightPreferredTime,
        weight_balanced_distribution |-> DefaultWeightBalancedDistribution,
        weight_consecutive_slots |-> DefaultWeightConsecutiveSlots,
        weight_gap_penalty |-> DefaultWeightGapPenalty,
        days |-> Names(1), time_slots |-> Names(1), rooms |-> Names(nr),
        room_capacities |-> RoomCapacities(Names(nr)) ] :
        nr \in 1..MaxPenaltyRooms }

PenaltyInit ==
    /\ entities \in {[i \in 1..n |-> EntityAt(i)] : n \in 0..MaxPenaltyEntities}
    /\ constraints = <<[type |-> "no_overlap"], [type |-> "room_capacity"]>>
    /\ config \in PenaltyConfigs
    /\ pc = "idle"
    /\ method = None
    /\ ga = NewGA
    /\ ga2 = NewGA
    /\ stop = FALSE
    /\ has_seed = "False"
    /\ gemini_solution = <<>>
    /\ advisor_calls = 0
    /\ response = NoResponse
    /\ sink = <<>>
    /\ result = <<>>
    /\ error = None

\* toolbox.individual(), twice
PenaltyCreate ==
    /\ pc = "idle"
    /\ \E draw1, draw2 \in PopulateDraws :
         ga' = [ga EXCEPT !.population = <<create_individual(draw1),
                                           create_individual(draw2)>>]
    /\ pc' = "created"
    /\ UNCHANGED error
    /\ FitnessFrame

\* ind.fitness.values = toolbox.evaluate(ind), for both
PenaltyEvaluate ==
    /\ pc = "created"
    /\ ga' = [ga EXCEPT !.population =
                [i \in DOMAIN ga.population |->
                   [ga.population[i] EXCEPT
                      !.fitness = evaluate_fitness(ga.population[i])]]]
    /\ pc' = "returned"
    /\ UNCHANGED error
    /\ FitnessFrame

PenaltyNext ==
    \/ PenaltyCreate
    \/ PenaltyEvaluate

SpecPenalty == PenaltyInit /\ [][PenaltyNext]_vars

\* ------------------------------------------------------------------ claims
\* The Individuals of the population and the hall of fame.
Individuals == Range(ga.population) \cup Range(ga.hof)

EntityIds == [i \in DOMAIN entities |-> entities[i].id]

GeneIds(individual) == [i \in DOMAIN individual.genes |-> individual.genes[i].entity_id]

\* C1: every Individual of the population and the hall of fame has one gene
\* per input entity, and each entity id occurs at exactly one position.
C1_EveryGenomeCoversEachEntityOnce ==
    \A ind \in Individuals :
        /\ Len(ind.genes) = Len(entities)
        /\ \A e \in DOMAIN entities :
             Cardinality({i \in DOMAIN ind.genes :
                            ind.genes[i].entity_id = entities[e].id}) = 1

\* C2: in every Individual of the population and the hall of fame the gene at
\* position i carries the id of the i-th input entity.
C2_GeneAtPositionIsEntityAtPosition ==
    \A ind \in Individuals : GeneIds(ind) = EntityIds

HofFitness(g) == g.hof[1].fitness[1]

\* C3: the fitness of the hall-of-fame Individual never decreases from one
\* step of evolve to the next.
C3_HallOfFameFitnessNeverDecreases ==
    [][ga.hof # <<>> => (ga'.hof # <<>> /\ FLe(HofFitness(ga), HofFitness(ga')))]_vars

\* C3 witness: two generations are evaluated, the second's average fitness is
\* below the first's, and the hall of fame still holds the best seen.
C3_Witness ==
    /\ Len(ga.history) >= 2
    /\ FLt(ga.history[2].avg_fitness, ga.history[1].avg_fitness)
    /\ FLe(ga.history[1].max_fitness, HofFitness(ga))

ValidResources == days # <<>> /\ time_slots # <<>> /\ rooms # <<>>

\* C4: history holds one entry per evaluated generation, numbered by position;
\* only the last entry may reach 1000, no selection, crossover or mutation
\* follows such a generation, and evolve stops only after a generation that
\* reached 1000 or after exactly `generations` generations.  Stated for the
\* inputs the configuration contract allows (non-empty resource lists, a
\* population of at least one Individual).
C4_EvolveStopsOnlyWhenDone ==
    (ValidResources /\ config.population_size >= 1) =>
        /\ \A i \in DOMAIN ga.history : ga.history[i].generation = i - 1
        /\ \A i \in DOMAIN ga.history :
             i < Len(ga.history) =>
                FLt(ga.history[i].max_fitness, Float(BaselineScore))
        /\ Len(ga.history) <= config.generations
        /\ ga.pc \in {"select", "mate", "mutate", "replace"} =>
             FLt(ga.history[Len(ga.history)].max_fitness, Float(BaselineScore))
        /\ ga.pc \in {"finish", "returned", "raised"} =>
             \/ Len(ga.history) = config.generations
             \/ /\ ga.history # <<>>
                /\ FLe(Float(BaselineScore),
                       ga.history[Len(ga.history)].max_fitness)

\* An injection of 1..n into the positions of s whose image has the members
\* of tail, in order.
IsSelectionOf(tail, s, chosen) ==
    /\ \A i \in DOMAIN tail : tail[i] = s[chosen[i]]
    /\ \A i, j \in DOMAIN tail : i # j => chosen[i] # chosen[j]

\* C5: an Elitism-Replace step leaves population_size Individuals: the first
\* population_size - elite_count offspring, then elite_count Individuals of
\* the old population, none of them less fit than one left out, where
\* elite_count = max(1, floor(population_size * elitism_rate)).
C5_ReplaceKeepsSizeAndElites ==
    [][(pc = "evolve" /\ ga.pc = "replace") =>
        LET n == config.population_size
            ec == Max(1, (n * config.elitism_rate) \div 100)
            tail == SubSeq(ga'.population, n - ec + 1, n)
        IN  /\ Len(ga'.population) = n
            /\ SubSeq(ga'.population, 1, n - ec) = SubSeq(ga.offspring, 1, n - ec)
            /\ \E chosen \in [1..ec -> DOMAIN ga.population] :
                 /\ IsSelectionOf(tail, ga.population, chosen)
                 /\ \A o \in DOMAIN ga.population :
                      (\A i \in 1..ec : chosen[i] # o) =>
                        \A i \in 1..ec :
                          FLe(ga.population[o].fitness[1], tail[i].fitness[1])
      ]_vars

\* C5 witness: a replacement was made in a population of two, the elite
\* behind one offspring.
C5_Witness ==
    /\ pc = "evolve"
    /\ ga.gen >= 1
    /\ config.population_size = 2
    /\ config.elitism_rate = 10
    /\ Len(ga.population) = 2

\* The advisor outcomes that carry no usable proposal.
FailingResponse(answer) ==
    \/ answer.kind \in {"raises", "no_candidates"}
    \/ /\ answer.kind = "candidate"
       /\ \/ answer.finish_reason \notin {0, 1}
          \/ answer.text = <<>>
          \/ /\ answer.text # <<>>
             /\ \/ answer.text[1].json \in {"invalid", "no_array"}
                \/ /\ answer.text[1].json = "array"
                   /\ \A i \in DOMAIN answer.text[1].rows :
                        "entity_id" \notin DOMAIN answer.text[1].rows[i]

\* The entities optimize hands to generate_schedule_suggestions.
AdapterEntities == IF method = "hybrid" THEN SeedEntities ELSE entities

\* C6: whatever failing outcome the advisor had, generate_schedule_suggestions
\* raises nothing and returns the fallback scheduler's rows.
C6_AdapterNeverRaises ==
    (response # NoResponse /\ FailingResponse(response)) =>
        LET out == generate_schedule_suggestions(AdapterEntities, response) IN
        /\ out.exc = None
        /\ out.ret = FallbackRows(AdapterEntities, 1, 0, 0, 0)

\* C7: optimize("gemini") with a failing or empty advisor returns a schedule
\* of one row per entity, in input order, with no fitness and no history.
C7_GeminiFailureStillReturnsFullSchedule ==
    (method = "gemini" /\ response # NoResponse /\ FailingResponse(response)) =>
        /\ pc = "returned"
        /\ result # <<>>
        /\ [i \in DOMAIN result[1].schedule |-> result[1].schedule[i].entity_id]
             = EntityIds
        /\ result[1].fitness = None
        /\ result[1].history = <<>>

\* C8: optimize with an unknown method raises before anything is computed: no
\* advisor call, no population, no generation, no progress call.
C8_UnknownMethodRaisesBeforeAnyWork ==
    method = "other" =>
        /\ pc = "raised"
        /\ error = "ValueError"
        /\ advisor_calls = 0
        /\ response = NoResponse
        /\ ga = NewGA
        /\ sink = <<>>
        /\ result = <<>>

\* C8 witness: optimize was called with an unknown method and has raised.
C8_Witness == method = "other" /\ pc = "raised"

\* C9: with an empty days, time_slots or rooms list, optimize in any of the
\* three methods has raised with nothing computed: no progress call, no
\* advisor call, no Individual created.
C9_EmptyResourcesRaiseBeforeAnyWork ==
    (~ValidResources /\ method \in {"gemini", "genetic", "hybrid"}) =>
        /\ pc = "raised"
        /\ sink = <<>>
        /\ advisor_calls = 0
        /\ ga.population = <<>>

C11_AdvisorCalledAtMostOnce ==
    /\ advisor_calls <= 1
    /\ pc \in {"idle", "advisor"} => advisor_calls = 0
    /\ method = "genetic" => advisor_calls = 0
    /\ (method \in {"gemini", "hybrid"} /\ pc \notin {"idle", "advisor"}) =>
         advisor_calls = 1

\* C11 witness: the advisor call raised in "gemini" mode and optimize has
\* returned the fallback schedule after that single call.
C11_Witness ==
    /\ method = "gemini"
    /\ response.kind = "raises"
    /\ pc = "returned"
    /\ advisor_calls = 1
    /\ result[1].schedule = FallbackRows(entities, 1, 0, 0, 0)
    /\ entities # <<>>

\* C18: in every method and for every advisor outcome the returned schedule
\* has as many assignments as there are input entities.
C18_ScheduleLengthIsEntityCount ==
    (pc = "returned" /\ result # <<>>) =>
        Len(result[1].schedule) = Len(entities)

\* The (day, time, room, duration) fields of a gene.
SlotFields(gene) ==
    <<gene.day, gene.time, gene.room, gene.duration>>

\* C20: a mutation step under the swap strategy on a genome of two or more
\* genes leaves the entity_id of every position as it was, and either changes
\* nothing or exchanges the (day, time, room, duration) fields of two distinct
\* positions, all other genes unchanged.
C20_SwapExchangesSlotFieldsOnly ==
    [][(/\ pc = "evolve"
        /\ ga.pc = "mutate"
        /\ config.mutation_strategy = "swap"
        /\ Len(ga.offspring[ga.k].genes) >= 2) =>
        LET before == ga.offspring[ga.k].genes
            after == ga'.offspring[ga.k].genes
        IN  /\ \A p \in DOMAIN before : after[p].entity_id = before[p].entity_id
            /\ \/ after = before
               \/ \E i, j \in DOMAIN before :
                    /\ i # j
                    /\ SlotFields(after[i]) = SlotFields(before[j])
                    /\ SlotFields(after[j]) = SlotFields(before[i])
                    /\ \A p \in DOMAIN before \ {i, j} : after[p] = before[p]
      ]_vars

\* The sink calls that report generation g.
CallsReporting(g) == {i \in DOMAIN sink : sink[i].generation = g}

\* C19 as stated: in "genetic" and "hybrid" mode every generation of history
\* is reported by exactly one sink call.
C19_OneSinkCallPerGeneration ==
    method \in {"genetic", "hybrid"} =>
        \A h \in DOMAIN ga.history :
            Cardinality(CallsReporting(ga.history[h].generation)) = 1

\* The per-generation calls ga_progress makes, in order.
GenerationReports ==
    SelectSeq(sink, LAMBDA call : call.message \in {"Generation", "Evolution"})

\* C19 amended: in "genetic" and "hybrid" mode the per-generation reports are,
\* at every moment, one per history entry and in history's order, each with
\* its generation's index, best and average; every other sink call is a phase
\* notice reporting generation 0 or, in "hybrid" mode, the closing call that
\* repeats the last generation.
C19_OneReportPerGeneration ==
    method \in {"genetic", "hybrid"} =>
        /\ Len(GenerationReports) = Len(ga.history)
        /\ \A h \in DOMAIN ga.history :
             /\ GenerationReports[h].generation = ga.history[h].generation
             /\ GenerationReports[h].best = ga.history[h].max_fitness
             /\ GenerationReports[h].avg = ga.history[h].avg_fitness
        /\ \A i \in DOMAIN sink :
             sink[i].message \notin {"Generation", "Evolution"} =>
                \/ sink[i].generation = 0
                \/ /\ method = "hybrid"
                   /\ i = Len(sink)
                   /\ sink[i].message = "Optimization Complete!"
                   /\ sink[i].generation = ga.history[Len(ga.history)].generation

\* C19 witness: a hybrid run returned after two evaluated generations, the
\* sink holding the phase notices, two reports and the closing call.
C19_Witness ==
    /\ method = "hybrid"
    /\ pc = "returned"
    /\ Len(ga.history) >= 2
    /\ Len(GenerationReports) = 2
    /\ Len(sink) = 6

\* C17: once the progress sink has returned a stop signal, evolve evaluates
\* no further generation and its hall of fame stays the one it returns.
C17_StopSignalEndsEvolution ==
    [][stop => (ga'.history = ga.history /\ ga'.hof = ga.hof)]_vars

\* The (day, time, room) of an assignment.
Triple(row) == <<row.day, row.time, row.room>>

\* The number of (day, time, room) triples of the configuration.
SlotCapacity == Len(days) * Len(time_slots) * Len(rooms)

\* C12: on non-empty lists of distinct days, time slots and rooms the
\* fallback scheduler gives every entity an assignment, and no two of them
\* the same (day, time, room), whenever there are at most D * T * R entities.
C12_FallbackTriplesDistinctUpToCapacity ==
    (pc = "returned" /\ ValidResources /\ Len(entities) <= SlotCapacity) =>
        /\ Len(gemini_solution) = Len(entities)
        /\ \A i, j \in DOMAIN gemini_solution :
             i # j => Triple(gemini_solution[i]) # Triple(gemini_solution[j])

\* C12 witness: the scheduler returned for five entities on two days, two
\* time slots and two rooms, the day counter having advanced.
C12_Witness ==
    /\ pc = "returned"
    /\ Len(entities) >= 5
    /\ Len(entities) <= SlotCapacity
    /\ Len(gemini_solution) = Len(entities)
    /\ gemini_solution[5].day # gemini_solution[1].day

\* The scenario of C13: five entities, two days, two time slots, two rooms.
FiveOnTwoByTwoByTwo ==
    /\ pc = "returned"
    /\ Len(entities) = 5
    /\ Len(days) = 2 /\ Len(time_slots) = 2 /\ Len(rooms) = 2

\* C13 as stated: in that scenario the first four assignments have pairwise
\* distinct triples and the fifth has the triple of the first.
C13_FifthRepeatsFirst ==
    FiveOnTwoByTwoByTwo =>
        /\ \A i, j \in 1..4 :
             i # j => Triple(gemini_solution[i]) # Triple(gemini_solution[j])
        /\ Triple(gemini_solution[5]) = Triple(gemini_solution[1])

\* C13 amended: in that scenario the first four assignments fill the first
\* day (room changing fastest, then time), and the fifth has the time and
\* room of the first on the second day, so all five triples are distinct.
C13_FifthOpensSecondDay ==
    FiveOnTwoByTwoByTwo =>
        /\ [i \in 1..5 |-> Triple(gemini_solution[i])]
             = << <<days[1], time_slots[1], rooms[1]>>,
                  <<days[1], time_slots[1], rooms[2]>>,
                  <<days[1], time_slots[2], rooms[1]>>,
                  <<days[1], time_slots[2], rooms[2]>>,
                  <<days[2], time_slots[1], rooms[1]>> >>
        /\ \A i, j \in 1..5 :
             i # j => Triple(gemini_solution[i]) # Triple(gemini_solution[j])

\* C13 witness: the scheduler returned in that scenario.
C13_Witness == FiveOnTwoByTwoByTwo /\ Len(gemini_solution) = 5

\* The fitness with exactly one overlap.
OneOverlapFitness == Float(BaselineScore - config.weight_no_overlap)

\* C16: two entities, one no_overlap constraint of weight 100 and a single
\* (day, time, room): whatever the draws and the mutation strategy, the
\* genetic method raises nothing, every generation it evaluates has max
\* fitness 900, it never stops before `generations` generations, and it
\* returns best fitness 900 with `generations` history entries.
C16_SingleSlotScenarioReturns900 ==
    /\ OneOverlapFitness = Float(900)
    /\ pc # "raised"
    /\ \A h \in DOMAIN ga.history : ga.history[h].max_fitness = OneOverlapFitness
    /\ ga.pc \in {"finish", "returned"} => Len(ga.history) = config.generations
    /\ pc = "returned" =>
         /\ result[1].fitness = OneOverlapFitness
         /\ Len(result[1].history) = config.generations
         /\ \A h \in DOMAIN result[1].history :
              result[1].history[h].max_fitness = OneOverlapFitness

\* C16 witness: the run with population_size 10 and generations 5 returned.
C16_Witness ==
    /\ pc = "returned"
    /\ config.population_size >= 10
    /\ config.generations >= 5
    /\ Len(result[1].history) >= 5
    /\ result[1].fitness = Float(900)

\* C14: the fitness evaluate_fitness returns is >= 0, whatever the
\* Individual, the constraint list and the fitness method.
C14_FitnessNeverNegative ==
    pc = "returned" => FLe(Float(0), ga.population[1].fitness[1])

\* The number of genes of the individual on the (day, time, room) of gene i.
Sharing(individual, i) ==
    Cardinality({j \in DOMAIN individual.genes :
                   Triple(individual.genes[j]) = Triple(individual.genes[i])})

\* C15: check_overlaps counts every unordered pair of genes on one
\* (day, time, room) once: each gene is in as many counted pairs as it has
\* partners on its triple, and a genome of k genes all on one triple gives
\* k * (k - 1) / 2.
C15_OverlapsCountUnorderedPairs ==
    pc \in {"created", "returned"} =>
        LET individual == ga.population[1]
            k == Len(individual.genes)
        IN  /\ 2 * check_overlaps(individual)
                 = SumSeq([i \in DOMAIN individual.genes |->
                             Sharing(individual, i) - 1])
            /\ (\A i \in DOMAIN individual.genes : Sharing(individual, i) = k) =>
                 2 * check_overlaps(individual) = k * (k - 1)

\* C15 witness: three genes on one triple, counted as three overlaps, and the
\* no_overlap penalty of three in the fitness.
C15_Witness ==
    /\ pc = "returned"
    /\ Len(ga.population[1].genes) = 3
    /\ \A i \in 1..3 : Sharing(ga.population[1], i) = 3
    /\ check_overlaps(ga.population[1]) = 3
    /\ constraints = <<[type |-> "no_overlap"]>>
    /\ config.fitness_method = "weighted"
    /\ ga.population[1].fitness[1]
         = PyMax(Float(BaselineScore - 3 * config.weight_no_overlap), Float(0))

\* The fields of {day, time, room} on which two genes differ.
ChangedFields(before, after) ==
    {f \in {"day", "time", "room"} : after[f] # before[f]}

\* C21: one application of the shift mutation changes exactly one of day,
\* time and room on exactly one gene; that gene's entity_id and duration and
\* every other gene stay as they were.
C21_ShiftChangesExactlyOneField ==
    [][(/\ pc = "evolve"
        /\ ga.pc = "mutate"
        /\ config.mutation_strategy = "shift") =>
        \A d \in MutationDraws(ga.offspring[ga.k]) :
            (d.mutate /\ ga' = MutateStep(ga, d) /\ ga'.pc # "raised") =>
                LET before == ga.offspring[ga.k].genes
                    after == ga'.offspring[ga.k].genes
                IN  \E idx \in DOMAIN before :
                      /\ Cardinality(ChangedFields(before[idx], after[idx])) = 1
                      /\ after[idx].entity_id = before[idx].entity_id
                      /\ after[idx].duration = before[idx].duration
                      /\ \A p \in DOMAIN before \ {idx} : after[p] = before[p]
      ]_vars

\* C22: what generate_schedule_suggestions returns in "gemini" mode is either
\* the fallback schedule, or rows of the advisor's array that all carry the
\* id of an input entity; when no row of the array carries such an id it is
\* the fallback schedule.
C22_AdapterRowsCarryKnownEntityIds ==
    (method = "gemini" /\ pc = "returned") =>
        LET schedule == result[1].schedule
            known(row) == /\ "entity_id" \in DOMAIN row
                          /\ row.entity_id \in Range(EntityIds)
            proposal == /\ response.kind = "candidate"
                        /\ response.text # <<>>
                        /\ response.text[1].json = "array"
                        /\ \E i \in DOMAIN response.text[1].rows :
                             known(response.text[1].rows[i])
        IN  IF proposal
            THEN /\ schedule = SelectSeq(response.text[1].rows, known)
                 /\ \A i \in DOMAIN schedule : known(schedule[i])
            ELSE schedule = FallbackRows(entities, 1, 0, 0, 0)

\* The penalty the hard constraints of the list put on an individual: 0 when
\* it has no overlap, no room-capacity and no availability violation.
HardPenalty(individual) ==
    0 - SumSeq([c \in DOMAIN constraints |-> HardTerm(individual, constraints[c])])

\* C23: when evolve stops before `generations` generations are evaluated, the
\* hall-of-fame schedule it returns violates no hard constraint of the list.
C23_EarlyStopOnlyOnPerfectSolution ==
    (/\ ga.pc \in {"finish", "returned"}
     /\ Len(ga.history) < config.generations
     /\ ga.hof # <<>>) =>
        /\ HardPenalty(ga.hof[1]) = 0
        /\ pc = "returned" => result[1].schedule = ga.hof[1].genes

\* C24 for negative raw scores: the fitness is 1000 / (1 + |score|), strictly
\* between 0 and 1000, and of two negative raw scores the one closer to zero
\* has the strictly greater fitness.
NegativeScoresKeepTheirOrder ==
    pc = "returned" =>
        \A i, j \in DOMAIN ga.population :
            LET s1 == RawScore(ga.population[i])
                s2 == RawScore(ga.population[j])
                f1 == ga.population[i].fitness[1]
                f2 == ga.population[j].fitness[1]
            IN  FLt(s1, Float(0)) =>
                  /\ f1 = PenaltyTransform(s1)
                  /\ FLt(Float(0), f1) /\ FLt(f1, Float(BaselineScore))
                  /\ (FLt(s2, s1) => FLt(f2, f1))

\* C24: under fitness_method "penalty_based" the fitness never reverses the
\* order of the raw scores: of two Individuals the one with the greater raw
\* score has a fitness at least as great, so an Individual with a negative
\* raw score is never fitter than one with a non-negative raw score.
C24_PenaltyBasedKeepsRawOrder ==
    /\ NegativeScoresKeepTheirOrder
    /\ pc = "returned" =>
         \A i, j \in DOMAIN ga.population :
             FLt(RawScore(ga.population[j]), RawScore(ga.population[i])) =>
                FLe(ga.population[j].fitness[1], ga.population[i].fitness[1])

\* C25: the fallback scheduler returns one assignment per entity, in input
\* order and with the entity's id; the entity at 0-based index k gets
\* rooms[k mod R], time_slots[(k div R) mod T] and days[(k div (R*T)) mod D],
\* so from index D*T*R on, entity k has the triple of entity k - D*T*R.
C25_FallbackOdometerClosedForm ==
    pc = "returned" =>
        LET D == Len(days)
            T == Len(time_slots)
            R == Len(rooms)
        IN  /\ Len(gemini_solution) = Len(entities)
            /\ \A i \in DOMAIN gemini_solution :
                 LET k == i - 1
                     row == gemini_solution[i]
                 IN  /\ row.entity_id = entities[i].id
                     /\ row.room = rooms[(k % R) + 1]
                     /\ row.time = time_slots[((k \div R) % T) + 1]
                     /\ row.day = days[((k \div (R * T)) % D) + 1]
                     /\ k >= D * T * R =>
                          Triple(row) = Triple(gemini_solution[i - D * T * R])

\* C25 witness: five entities on one day, two time slots and two rooms; the
\* fifth assignment is past the capacity of four and has the first's triple.
C25_Witness ==
    /\ pc = "returned"
    /\ Len(gemini_solution) = 5
    /\ SlotCapacity = 4
    /\ Len(time_slots) = 2 /\ Len(rooms) = 2
    /\ Triple(gemini_solution[5]) = Triple(gemini_solution[1])
    /\ Triple(gemini_solution[3]) = <<days[1], time_slots[2], rooms[1]>>

\* C26: selection, crossover and mutation work on copies and leave the
\* evaluated population as it is; the replacement puts its elite_count best
\* Individuals, genes and fitness unchanged, at the end of the next
\* population; and so max_fitness never decreases from one history entry to
\* the next.
C26_ElitesCarriedForwardUnchanged ==
    /\ [](\A h \in DOMAIN ga.history :
            h < Len(ga.history) =>
               FLe(ga.history[h].max_fitness, ga.history[h + 1].max_fitness))
    /\ [][(pc = "evolve" /\ ga.pc \in {"select", "mate", "mutate"}) =>
             ga'.population = ga.population]_vars
    /\ [][(pc = "evolve" /\ ga.pc = "replace") =>
             LET n == Len(ga'.population)
                 ec == Max(1, (config.population_size * config.elitism_rate) \div 100)
                 elites == SubSeq(ga'.population, n - ec + 1, n)
             IN  /\ n = config.population_size
                 /\ elites = selBest(ga.population, ec)
                 /\ \A e \in DOMAIN elites :
                      /\ elites[e].fitness = evaluate_fitness(elites[e])
                      /\ \A i \in DOMAIN ga.population :
                           FLe(ga.population[i].fitness[1], elites[1].fitness[1])
          ]_vars

\* C26 witness: in a population of two the second generation's worst
\* Individual is worse than the first generation's, a variation having done
\* harm, and the second generation's best is the elite carried forward.
C26_Witness ==
    /\ config.population_size = 2
    /\ Len(ga.history) >= 2
    /\ FLt(ga.history[2].min_fitness, ga.history[1].min_fitness)
    /\ ga.history[2].max_fitness = ga.history[1].max_fitness
    /\ ga.pc = "select"
    /\ ga.population[2].fitness[1] = ga.history[1].max_fitness

\* The max_fitness values of a history, in order.
MaxFitnesses(history) == [h \in DOMAIN history |-> history[h].max_fitness]

\* C27: when evolve returns, the fitness it returns is the greatest
\* max_fitness of its history, and evaluate_fitness on the schedule it
\* returns gives that fitness again; the hall of fame changes at the
\* evaluation of a generation only, never at a selection, crossover, mutation
\* or replacement.
C27_ResultIsBestOfHistory ==
    /\ []((pc = "returned" /\ method \in {"genetic", "hybrid"}) =>
            /\ result[1].history # <<>>
            /\ result[1].history = ga.history
            /\ result[1].fitness = MaxSeq(MaxFitnesses(result[1].history))
            /\ evaluate_fitness([genes |-> result[1].schedule, fitness |-> NoFitness])
                 = <<result[1].fitness>>)
    /\ [][(pc = "evolve" /\ ga.pc \in {"select", "mate", "mutate", "replace"}) =>
             ga'.hof = ga.hof]_vars

\* C27 witness: a run returned after two generations, the second better than
\* the first, with the second's best as its fitness.
C27_Witness ==
    /\ pc = "returned"
    /\ method = "genetic"
    /\ Len(result[1].history) = 2
    /\ FLt(result[1].history[1].max_fitness, result[1].history[2].max_fitness)
    /\ result[1].fitness = result[1].history[2].max_fitness
    /\ result[1].schedule # ga.population[1].genes

\* Every gene of the individual lies on the configured grid.
OnGrid(individual) ==
    \A i \in DOMAIN individual.genes :
        /\ individual.genes[i].day \in Range(days)
        /\ individual.genes[i].time \in Range(time_slots)
        /\ individual.genes[i].room \in Range(rooms)

\* C28: at every step of evolve, every gene of every Individual (population,
\* offspring under crossover and mutation, hall of fame, returned schedule)
\* has its day in days, its time in time_slots and its room in rooms, so the
\* checkers find every day among the day counts and every time in time_slots.
C28_GenesStayOnTheGrid ==
    /\ \A ind \in Range(ga.population) \cup Range(ga.offspring) \cup Range(ga.hof) :
         /\ OnGrid(ind)
         /\ Len(DayCounts(ind)) = Len(days)
         /\ SumSeq(DayCounts(ind)) = Len(ind.genes)
         /\ \A i \in DOMAIN ind.genes :
              \E k \in DOMAIN time_slots :
                  IndexOf(time_slots, ind.genes[i].time) = k - 1
    /\ (pc = "returned" /\ method \in {"genetic", "hybrid"}) =>
         OnGrid([genes |-> result[1].schedule])

\* C28 witness: under the random strategy a generation passed, and an
\* Individual of the next population sits on a room its first population
\* did not use.
C28_Witness ==
    /\ config.mutation_strategy = "random"
    /\ Len(rooms) = 2
    /\ ga.gen >= 1
    /\ ga.pc = "select"
    /\ Len(ga.history) = 2
    /\ \E i \in DOMAIN ga.population :
         \E p \in DOMAIN ga.population[i].genes :
             /\ ga.population[i].genes[p].room = rooms[2]
             /\ FLt(ga.history[1].max_fitness, ga.population[i].fitness[1])

\* An entity needs more seats than any configured room has.
SomeEntityFitsNoRoom ==
    \E e \in DOMAIN entities :
        \A r \in DOMAIN rooms :
            Get(entities[e], "capacity_needed", 0) > get_room_capacity(rooms[r])

\* The inputs of C29: a room_capacity constraint and no preference, an entity
\* that fits no room, non-empty resource lists, a population and at least one
\* generation.
DegenerateEvaluation ==
    /\ method = "genetic"
    /\ \E c \in DOMAIN constraints : constraints[c].type = "room_capacity"
    /\ \A c \in DOMAIN constraints :
         constraints[c].type \in {"no_overlap", "room_capacity", "availability"}
    /\ SomeEntityFitsNoRoom
    /\ ValidResources
    /\ config.population_size >= 1
    /\ config.generations >= 1

\* C29: on those inputs the run is not aborted, no generation's best fitness
\* exceeds 1000 - weight_room_capacity, evolve never stops early and, after
\* exactly `generations` generations, returns one assignment per entity.
C29_DegenerateEvaluationRunsToTheEnd ==
    DegenerateEvaluation =>
        /\ pc # "raised"
        /\ \A h \in DOMAIN ga.history :
             FLe(ga.history[h].max_fitness,
                 Float(BaselineScore - config.weight_room_capacity))
        /\ ga.pc \in {"finish", "returned"} => Len(ga.history) = config.generations
        /\ pc = "returned" => Len(result[1].schedule) = Len(entities)

\* C30: in "hybrid" mode the seed flag is true, and the sink is told "AI seed
\* generated", only if the advisor's own answer held a proposal that passed
\* the validation; after any failing answer the flag is false, the sink is
\* told "Skipping AI seed", and the flag is what the result carries as
\* gemini_seed.
C30_SeedFlagTellsAdvisorOutcome ==
    /\ (method = "hybrid" /\ response # NoResponse) =>
         LET generated == \E i \in DOMAIN sink :
                             sink[i] = Notice("Phase 1: AI seed generated")
             skipped == \E i \in DOMAIN sink :
                           sink[i] = Notice("Phase 1: Skipping AI seed, using random init")
         IN  IF FailingResponse(response)
             THEN ~Truthy(has_seed) /\ skipped /\ ~generated
             ELSE Truthy(has_seed) /\ generated /\ ~skipped
    /\ (method = "hybrid" /\ pc = "returned") => result[1].gemini_seed = has_seed

====
